---- MODULE Spec2Model ----
(***************************************************************************)
(* A model of gogridengine's job and resource layer (src/job.go): the Task *)
(* marshallers, the JobList assembly and filters, task-range detection and *)
(* expansion, and the ResourceList accessors with the storage converter.   *)
(*                                                                         *)
(* A Go string is modelled as a sequence of one-character strings, so that *)
(* parsing and formatting are computed character by character.  The        *)
(* library keeps no state between calls; each component has the variables  *)
(* of its own calls and a specification of its own (SpecTask, SpecJobs,    *)
(* SpecExpand, SpecResource, SpecStorage).                                 *)
(***************************************************************************)
EXTENDS Integers, Sequences, FiniteSets

VARIABLES
    task, decErr, emitted, tOp,                       \* Task marshalling
    jobList, gjInfo, gjUpErr, gjPred, gjErr, jOp,     \* GetJobs
    flList, flIn, flPreds, flOut, fOp,                \* JobList filters
    exJob, exPc, exI, exEnd, exStep, exJl, exErr,     \* ExtrapolateTasksToJobs
    drJob, drOk, drErr, dOp,                          \* DoesJobContainTaskRange
    rOp, rList, rKey, rFound, rNum, rSv, rErr, rPanic,   \* ResourceList accessors
    svIn, svOut, svErr, svOp                          \* newStorageValue

taskVars == <<task, decErr, emitted, tOp>>
jobVars  == <<jobList, gjInfo, gjUpErr, gjPred, gjErr, jOp>>
filVars  == <<flList, flIn, flPreds, flOut, fOp>>
expVars  == <<exJob, exPc, exI, exEnd, exStep, exJl, exErr>>
detVars  == <<drJob, drOk, drErr, dOp>>
resVars  == <<rOp, rList, rKey, rFound, rNum, rSv, rErr, rPanic>>
svVars   == <<svIn, svOut, svErr, svOp>>
vars     == <<taskVars, jobVars, filVars, expVars, detVars, resVars, svVars>>

(***************************************************************************)
(* Bounds of the model.                                                    *)
(***************************************************************************)
MaxTaskLen == 3
MaxQueues == 2
MaxQueueJobs == 2
MaxPending == 2
MaxJobs == 4
MaxChain == 2
MaxSourceLen == 6
MaxDetectLen == 6
MaxExpand == 12
MaxResources == 2
MaxNumberLen == 4

(***************************************************************************)
(* Strings and decimal digits.                                             *)
(***************************************************************************)
DigitChars == <<"0", "1", "2", "3", "4", "5", "6", "7", "8", "9">>
Digits == {DigitChars[i] : i \in 1..10}
DigitVal(c) == (CHOOSE i \in 1..10 : DigitChars[i] = c) - 1

\* All strings over alphabet A of length at most n.
StringsUpTo(A, n) == UNION {[1..k -> A] : k \in 0..n}

\* strings.Contains(s, c) for a one-character c.
Contains(s, c) == \E i \in 1..Len(s) : s[i] = c

AllDigits(s) == \A i \in 1..Len(s) : s[i] \in Digits

\* A digit string as a sequence of digit values, and without leading zeros.
RECURSIVE StripZeros(_)
StripZeros(d) == IF d # <<>> /\ d[1] = 0 THEN StripZeros(Tail(d)) ELSE d
DigitValues(s) == [i \in 1..Len(s) |-> DigitVal(s[i])]

\* Comparison of two natural numbers given as digit sequences without
\* leading zeros.
RECURSIVE LexLess(_, _)
LexLess(a, b) ==
    IF a = <<>> THEN FALSE
    ELSE IF a[1] # b[1] THEN a[1] < b[1]
    ELSE LexLess(Tail(a), Tail(b))
BigLess(a, b) ==
    IF Len(a) # Len(b) THEN Len(a) < Len(b) ELSE LexLess(a, b)

RECURSIVE DigitsToInt(_)
DigitsToInt(d) ==
    IF d = <<>> THEN 0 ELSE 10 * DigitsToInt(SubSeq(d, 1, Len(d) - 1)) + d[Len(d)]

\* 2^63 and 2^31, the first values outside int64 and int32, and 2^64 and
\* 2^32, the first values outside uint64 and uint32.
Big2p63 == <<9, 2, 2, 3, 3, 7, 2, 0, 3, 6, 8, 5, 4, 7, 7, 5, 8, 0, 8>>
Big2p31 == <<2, 1, 4, 7, 4, 8, 3, 6, 4, 8>>
Big2p64 == <<1, 8, 4, 4, 6, 7, 4, 4, 0, 7, 3, 7, 0, 9, 5, 5, 1, 6, 1, 6>>
Big2p32 == <<4, 2, 9, 4, 9, 6, 7, 2, 9, 6>>

\* strconv.ParseUint's loop over the characters, n the value read so far:
\* a character that is no digit is a syntax error, a value that leaves the
\* unsigned bit size is a range error, whichever the loop meets first.
RECURSIVE ParseUintFrom(_, _, _, _)
ParseUintFrom(body, k, n, bitSize) ==
    IF k > Len(body) THEN [mag |-> n, err |-> "nil"]
    ELSE IF body[k] \notin Digits THEN [mag |-> <<>>, err |-> "syntax"]
    ELSE LET n1 == StripZeros(Append(n, DigitVal(body[k])))
         IN  IF ~BigLess(n1, IF bitSize = 64 THEN Big2p64 ELSE Big2p32)
               THEN [mag |-> n1, err |-> "range"]
             ELSE ParseUintFrom(body, k + 1, n1, bitSize)

\* strconv.ParseInt(s, 10, bitSize): an optional sign, then one or more
\* digits.  On a range error the value is the nearest one of the bit size,
\* written "MaxInt" or "MinInt"; no caller reads it.
ParseInt(s, bitSize) ==
    LET signed == s # <<>> /\ s[1] \in {"+", "-"}
        neg    == s # <<>> /\ s[1] = "-"
        body   == IF signed THEN Tail(s) ELSE s
        un     == ParseUintFrom(body, 1, <<>>, bitSize)
        cutoff == IF bitSize = 64 THEN Big2p63 ELSE Big2p31
    IN  IF body = <<>> \/ un.err = "syntax"
          THEN [val |-> 0, err |-> "syntax"]
        ELSE IF ~neg /\ (un.err = "range" \/ ~BigLess(un.mag, cutoff))
          THEN [val |-> "MaxInt", err |-> "range"]
        ELSE IF neg /\ (un.err = "range" \/ BigLess(cutoff, un.mag))
          THEN [val |-> "MinInt", err |-> "range"]
        ELSE [val |-> IF neg THEN -DigitsToInt(un.mag) ELSE DigitsToInt(un.mag),
              err |-> "nil"]

\* strconv.Itoa(n): the decimal form of n, "-" first when negative.
RECURSIVE NatToString(_)
NatToString(n) ==
    IF n < 10 THEN <<DigitChars[n + 1]>>
    ELSE Append(NatToString(n \div 10), DigitChars[(n % 10) + 1])
ItoaNoSign(n) == NatToString(IF n < 0 THEN -n ELSE n)
Itoa(n) == IF n < 0 THEN <<"-">> \o NatToString(-n) ELSE NatToString(n)

(***************************************************************************)
(* Task: UnmarshalXML and MarshalXML.                                      *)
(***************************************************************************)
ZeroTask == [Source |-> <<>>, TaskID |-> 0]

\* What an encoder call wrote: nothing (EncodeElement(nil, ...)) or a text.
Nothing == [present |-> FALSE, text |-> <<>>]
Text(s) == [present |-> TRUE, text |-> s]

\* Task.UnmarshalXML on receiver t with element text v: the new receiver
\* and the error returned.
UnmarshalXML(t, v) ==
    LET t1 == [t EXCEPT !.Source = v]
    IN  IF ~Contains(t1.Source, ":")
          THEN LET p == ParseInt(t1.Source, 64)
               IN  IF p.err # "nil"
                     THEN [t |-> t1, err |-> p.err]
                     ELSE [t |-> [t1 EXCEPT !.TaskID = p.val], err |-> "nil"]
          ELSE [t |-> t1, err |-> "nil"]

\* Task.MarshalXML: what is handed to the encoder.
MarshalXML(t) ==
    IF Contains(t.Source, ":") THEN Text(t.Source)
    ELSE IF t.TaskID = 0 THEN Nothing
    ELSE Text(Itoa(t.TaskID))

TaskAlphabet == {"0", "1", "7", "-", "+", ":"}
TaskTexts == StringsUpTo(TaskAlphabet, MaxTaskLen)

\* The decoder builds a new Task for each <tasks> element and calls
\* UnmarshalXML on it.
DecodeTask(v) ==
    /\ tOp = "init"
    /\ LET r == UnmarshalXML(ZeroTask, v)
       IN  /\ task' = r.t
           /\ decErr' = r.err
    /\ emitted' = Nothing
    /\ tOp' = "decoded"
    /\ UNCHANGED <<jobVars, filVars, expVars, detVars, resVars, svVars>>

\* The encoder calls MarshalXML on a decoded Task.
EncodeTask ==
    /\ tOp = "decoded"
    /\ decErr = "nil"
    /\ emitted' = MarshalXML(task)
    /\ tOp' = "encoded"
    /\ UNCHANGED <<task, decErr>>
    /\ UNCHANGED <<jobVars, filVars, expVars, detVars, resVars, svVars>>

\* A <tasks> element with any of the texts is decoded.
Decode == tOp = "init" /\ \E v \in TaskTexts : DecodeTask(v)

NextTask == Decode \/ EncodeTask

(***************************************************************************)
(* Job and JobList: GetJobs, GetJobsWithFilter, FilterJobs, Filter.        *)
(***************************************************************************)
NewJob(number, state, owner) ==
    [JBJobNumber |-> number, State |-> state, JobOwner |-> owner,
     Tasks |-> [Source |-> <<>>, TaskID |-> 0]]

\* The jobs a queue's job list holds (running) and the pending ones.
RunningJobs == {NewJob(1, "r", "alice"), NewJob(2, "r", "bob")}
PendingJobs == {NewJob(3, "qw", "alice"), NewJob(4, "qw", "bob")}
AllJobs == RunningJobs \cup PendingJobs

\* The filter functions callers pass, by name.
Predicates == {"running", "alice", "none"}
Holds(p, j) ==
    CASE p = "running" -> j.State = "r"
      [] p = "alice"   -> j.JobOwner = "alice"
      [] OTHER         -> FALSE

\* What GetJobInfo hands back: the queues' job lists, the pending job list.
JobInfos ==
    [Queues : StringsUpTo(StringsUpTo(RunningJobs, MaxQueueJobs), MaxQueues),
     Pending : StringsUpTo(PendingJobs, MaxPending)]

\* The loop of GetJobs over ji.QueueInfo.Queues.
RECURSIVE AppendQueues(_, _)
AppendQueues(jobs, queues) ==
    IF queues = <<>> THEN jobs
    ELSE AppendQueues(jobs \o Head(queues), Tail(queues))

\* A faulty variant: the error path hands back what the document held.
GetJobsPartial(ji, err) ==
    [jobs |-> AppendQueues(<<>>, ji.Queues) \o ji.Pending,
     err  |-> err]

\* GetJobs, given what GetJobInfo returned.
GetJobs(ji, err) ==
    IF err # "nil" THEN [jobs |-> <<>>, err |-> err]
    ELSE [jobs |-> AppendQueues(<<>>, ji.Queues) \o ji.Pending,
          err  |-> "nil"]

\* A faulty variant: the matches are put in front of the ones found before.
RECURSIVE FilterPrepend(_, _)
FilterPrepend(jl, filter) ==
    IF jl = <<>> THEN <<>>
    ELSE IF Holds(filter, Head(jl))
      THEN FilterPrepend(Tail(jl), filter) \o <<Head(jl)>>
      ELSE FilterPrepend(Tail(jl), filter)

\* JobList.Filter: the loop over the receiver, v the element at index k.
RECURSIVE FilterFrom(_, _, _, _)
FilterFrom(jl, filter, k, jobs) ==
    IF k > Len(jl) THEN jobs
    ELSE FilterFrom(jl, filter, k + 1,
                    IF Holds(filter, jl[k]) THEN Append(jobs, jl[k]) ELSE jobs)
Filter(jl, filter) == FilterFrom(jl, filter, 1, <<>>)

\* FilterJobs: the same loop over its first argument.
RECURSIVE FilterJobsFrom(_, _, _, _)
FilterJobsFrom(jobs, filter, k, jl) ==
    IF k > Len(jobs) THEN jl
    ELSE FilterJobsFrom(jobs, filter, k + 1,
                        IF Holds(filter, jobs[k]) THEN Append(jl, jobs[k]) ELSE jl)
FilterJobs(jobs, filter) == FilterJobsFrom(jobs, filter, 1, <<>>)

\* GetJobsWithFilter, given what GetJobInfo returned.
GetJobsWithFilter(ji, err, filterfunc) ==
    LET r == GetJobs(ji, err)
    IN  IF r.err # "nil" THEN [jobs |-> <<>>, err |-> r.err]
        ELSE [jobs |-> Filter(r.jobs, filterfunc), err |-> "nil"]

UpstreamErrors == {"nil", "upstream"}

GetJobsCall(ji, err) ==
    /\ jOp = "init"
    /\ LET r == GetJobs(ji, err)
       IN  /\ jobList' = r.jobs
           /\ gjErr' = r.err
    /\ gjInfo' = ji
    /\ gjUpErr' = err
    /\ gjPred' = "-"
    /\ jOp' = "GetJobs"
    /\ UNCHANGED <<taskVars, filVars, expVars, detVars, resVars, svVars>>

GetJobsWithFilterCall(ji, err, p) ==
    /\ jOp = "init"
    /\ LET r == GetJobsWithFilter(ji, err, p)
       IN  /\ jobList' = r.jobs
           /\ gjErr' = r.err
    /\ gjInfo' = ji
    /\ gjUpErr' = err
    /\ gjPred' = p
    /\ jOp' = "GetJobsWithFilter"
    /\ UNCHANGED <<taskVars, filVars, expVars, detVars, resVars, svVars>>

\* The program asks for the jobs once, whatever GetJobInfo then returns.
Assemble ==
    jOp = "init" /\ \E ji \in JobInfos, err \in UpstreamErrors : GetJobsCall(ji, err)
AssembleFiltered ==
    jOp = "init" /\ \E ji \in JobInfos, err \in UpstreamErrors, p \in Predicates :
        GetJobsWithFilterCall(ji, err, p)

NextJobs == Assemble \/ AssembleFiltered

\* The less functions callers pass to Sort, by name: each reads the list at
\* two indices.  Two jobs of one owner are in neither order under "byOwner".
Sorters == {"byNumber", "byOwner"}
Less(sorter, jl, i, j) ==
    IF sorter = "byNumber" THEN jl[i].JBJobNumber < jl[j].JBJobNumber
    ELSE jl[i].JobOwner = "alice" /\ jl[j].JobOwner = "bob"

\* sort.Slice on a list of at most twelve elements is an insertion sort with
\* the caller's less function: the element at i goes down while it is less
\* than the one before it.
Swap(jl, i, j) == [jl EXCEPT ![i] = jl[j], ![j] = jl[i]]
RECURSIVE SiftDown(_, _, _)
SiftDown(jl, sorter, j) ==
    IF j > 1 /\ Less(sorter, jl, j, j - 1)
      THEN SiftDown(Swap(jl, j, j - 1), sorter, j - 1)
      ELSE jl
RECURSIVE InsertionSort(_, _, _)
InsertionSort(jl, sorter, i) ==
    IF i > Len(jl) THEN jl
    ELSE InsertionSort(SiftDown(jl, sorter, i), sorter, i + 1)

\* JobList.Sort: the receiver's elements are reordered where they are and
\* the receiver is returned.
Sort(jl, sorter) == InsertionSort(jl, sorter, 2)

\* jl.Filter(p) on the caller's list flList; flIn keeps what the list was
\* before the call.
FilterCall(p) ==
    /\ fOp \in {"init", "Sort"}
    /\ flIn' = flList
    /\ flPreds' = <<p>>
    /\ flOut' = Filter(flList, p)
    /\ fOp' = "Filter"
    /\ UNCHANGED flList
    /\ UNCHANGED <<taskVars, jobVars, expVars, detVars, resVars, svVars>>

\* FilterJobs(jl, p) on the caller's list.
FilterJobsCall(p) ==
    /\ fOp \in {"init", "Sort"}
    /\ flIn' = flList
    /\ flPreds' = <<p>>
    /\ flOut' = FilterJobs(flList, p)
    /\ fOp' = "FilterJobs"
    /\ UNCHANGED flList
    /\ UNCHANGED <<taskVars, jobVars, expVars, detVars, resVars, svVars>>

\* The fluent chain: .Filter(q) on the list the last call returned, which
\* keeps the order a Sort in the chain has given it.
FilterAgain(q) ==
    /\ fOp \in {"Filter", "FilterJobs", "Chain", "Sorted", "SortedChain"}
    /\ Len(flPreds) < MaxChain
    /\ flPreds' = Append(flPreds, q)
    /\ flOut' = Filter(flOut, q)
    /\ fOp' = IF fOp \in {"Sorted", "SortedChain"} THEN "SortedChain" ELSE "Chain"
    /\ UNCHANGED <<flList, flIn>>
    /\ UNCHANGED <<taskVars, jobVars, expVars, detVars, resVars, svVars>>

\* jl.Sort(s) on the caller's list, at any time: the list itself takes the
\* new order, and the list returned is that same list.
SortCall(s) ==
    /\ flIn' = flList
    /\ flPreds' = <<>>
    /\ flList' = Sort(flList, s)
    /\ flOut' = flList'
    /\ fOp' = "Sort"
    /\ UNCHANGED <<taskVars, jobVars, expVars, detVars, resVars, svVars>>

\* The fluent chain: .Sort(s) on the list a filter returned, which shares
\* nothing with the caller's list.
SortAgain(s) ==
    /\ fOp \in {"Filter", "FilterJobs", "Chain", "Sorted", "SortedChain"}
    /\ flOut' = Sort(flOut, s)
    /\ fOp' = "Sorted"
    /\ UNCHANGED <<flList, flIn, flPreds>>
    /\ UNCHANGED <<taskVars, jobVars, expVars, detVars, resVars, svVars>>

NextFilter ==
    \/ \E p \in Predicates : FilterCall(p)
    \/ \E p \in Predicates : FilterJobsCall(p)
    \/ \E q \in Predicates : FilterAgain(q)
    \/ \E s \in Sorters : SortCall(s)
    \/ \E s \in Sorters : SortAgain(s)

(***************************************************************************)
(* Task ranges: the regular expression, DoesJobContainTaskRange and        *)
(* ExtrapolateTasksToJobs.                                                 *)
(***************************************************************************)
\* A regular expression as the sequence of its items: a literal character,
\* one digit ([0-9]) or one or more digits ([0-9]{1,}, greedy).
Lit(c)    == [kind |-> "lit", ch |-> c]
OneDigit  == [kind |-> "digit", ch |-> ""]
DigitsOneOrMore == [kind |-> "digits", ch |-> ""]

\* A faulty variant: two digits are asked for after the colon.
TwoDigitStepRegex ==
    <<DigitsOneOrMore, Lit("-"), DigitsOneOrMore, Lit(":"), OneDigit, OneDigit>>

\* TASKRANGEIDENTIFIERREGEX: [0-9]{1,}-[0-9]{1,}:[0-9]
TASKRANGEIDENTIFIERREGEX ==
    <<DigitsOneOrMore, Lit("-"), DigitsOneOrMore, Lit(":"), OneDigit>>

\* The number of digits of s from index i on.
RECURSIVE DigitRun(_, _)
DigitRun(s, i) ==
    IF i <= Len(s) /\ s[i] \in Digits THEN 1 + DigitRun(s, i + 1) ELSE 0

\* The match of items k.. of pat at index i of s, as regexp finds it (the
\* longest run of digits first, then shorter ones): the index after the
\* match, or 0 when there is none.
RECURSIVE MatchHere(_, _, _, _), TryRun(_, _, _, _, _)
MatchHere(pat, k, s, i) ==
    IF k > Len(pat) THEN i
    ELSE CASE pat[k].kind = "lit" ->
                IF i <= Len(s) /\ s[i] = pat[k].ch
                  THEN MatchHere(pat, k + 1, s, i + 1) ELSE 0
           [] pat[k].kind = "digit" ->
                IF i <= Len(s) /\ s[i] \in Digits
                  THEN MatchHere(pat, k + 1, s, i + 1) ELSE 0
           [] pat[k].kind = "digits" ->
                TryRun(pat, k, s, i, DigitRun(s, i))
TryRun(pat, k, s, i, n) ==
    IF n < 1 THEN 0
    ELSE LET e == MatchHere(pat, k + 1, s, i + n)
         IN  IF e # 0 THEN e ELSE TryRun(pat, k, s, i, n - 1)

\* The leftmost match from index i on: where it starts and the index after
\* it; start 0 when there is none.
RECURSIVE FindFrom(_, _, _)
FindFrom(pat, s, i) ==
    IF i > Len(s) + 1 THEN [start |-> 0, end |-> 0]
    ELSE LET e == MatchHere(pat, 1, s, i)
         IN  IF e # 0 THEN [start |-> i, end |-> e]
             ELSE FindFrom(pat, s, i + 1)

\* Regexp.MatchString and Regexp.FindString.
MatchString(pat, s) == FindFrom(pat, s, 1).start # 0
FindString(pat, s) ==
    LET m == FindFrom(pat, s, 1)
    IN  IF m.start = 0 THEN <<>> ELSE SubSeq(s, m.start, m.end - 1)

\* strings.Split(s, sep) for a one-character separator.
RECURSIVE SplitFrom(_, _, _, _)
SplitFrom(s, sep, i, cur) ==
    IF i > Len(s) THEN <<cur>>
    ELSE IF s[i] = sep THEN <<cur>> \o SplitFrom(s, sep, i + 1, <<>>)
    ELSE SplitFrom(s, sep, i + 1, Append(cur, s[i]))
Split(s, sep) == SplitFrom(s, sep, 1, <<>>)

\* DoesJobContainTaskRange: the expression is a constant that compiles, so
\* the error is always nil.
DoesJobContainTaskRange(j) ==
    [ok |-> MatchString(TASKRANGEIDENTIFIERREGEX, j.Tasks.Source), err |-> "nil"]

\* ExtrapolateTasksToJobs up to its loop: the error it returns at once, or
\* the loop's begin, end and increment.
ExtrapolateSetup(original) ==
    LET d == DoesJobContainTaskRange(original)
        identifier == FindString(TASKRANGEIDENTIFIERREGEX, original.Tasks.Source)
        pieces == Split(identifier, ":")
        rangeComponent == pieces[1]
        incrementor == pieces[2]
        rangePieces == Split(rangeComponent, "-")
        begin == rangePieces[1]
        end == rangePieces[2]
        intrementor == ParseInt(incrementor, 64)
        beginInt == ParseInt(begin, 64)
        endInt == ParseInt(end, 64)
        fail(e) == [err |-> e, begin |-> 0, end |-> 0, step |-> 0]
    IN  IF d.err # "nil" THEN fail(d.err)
        ELSE IF ~d.ok THEN fail("not a range")
        ELSE IF intrementor.err # "nil" THEN fail(intrementor.err)
        ELSE IF beginInt.err # "nil" THEN fail(beginInt.err)
        ELSE IF endInt.err # "nil" THEN fail(endInt.err)
        ELSE [err |-> "nil", begin |-> beginInt.val, end |-> endInt.val,
              step |-> intrementor.val]

SourceAlphabet == {"0", "1", "2", "-", ":"}
Sources == StringsUpTo(SourceAlphabet, MaxSourceLen)

\* A job as decoded from a <job_list> element whose <tasks> text is src.
DecodedJob(src) ==
    [NewJob(7, "qw", "alice") EXCEPT !.Tasks = UnmarshalXML(ZeroTask, src).t]

\* The call of ExtrapolateTasksToJobs, up to the loop's first test.  The
\* returns before the loop hand back an empty JobList and the error.
ExtrapolateCall(original) ==
    /\ exPc = "idle"
    /\ exJob' = original
    /\ LET r == ExtrapolateSetup(original)
       IN  /\ exErr' = r.err
           /\ exPc' = IF r.err # "nil" THEN "done" ELSE "loop"
           /\ exI' = r.begin
           /\ exEnd' = r.end
           /\ exStep' = r.step
    /\ exJl' = <<>>
    /\ UNCHANGED <<taskVars, jobVars, filVars, detVars, resVars, svVars>>

\* i = i + intrementor on int64: the sum modulo 2^64, taken in
\* -2^63 .. 2^63 - 1.  A sum of less than 2^30 in size is its own value.
AddInt64(a, b) ==
    LET sum == a + b
    IN  IF -(2^30) < sum /\ sum < 2^30 THEN sum
        ELSE ((sum + 2^63) % 2^64) - 2^63

\* One pass of the loop: i <= endInt, so a copy of the original with TaskID
\* i is appended and i goes up by the increment, as an int64.  A loop whose
\* increment is zero has no last pass: the code appends until the memory is
\* used up, and the model follows it for MaxExpand passes.
ExtrapolateLoop ==
    /\ exPc = "loop"
    /\ exI <= exEnd
    /\ exStep = 0 => Len(exJl) < MaxExpand
    /\ exJl' = Append(exJl, [exJob EXCEPT !.Tasks.TaskID = exI])
    /\ exI' = AddInt64(exI, exStep)
    /\ UNCHANGED <<exJob, exPc, exEnd, exStep, exErr>>
    /\ UNCHANGED <<taskVars, jobVars, filVars, detVars, resVars, svVars>>

\* The loop's test fails: return jl, nil.
ExtrapolateReturn ==
    /\ exPc = "loop"
    /\ exI > exEnd
    /\ exPc' = "done"
    /\ UNCHANGED <<exJob, exI, exEnd, exStep, exJl, exErr>>
    /\ UNCHANGED <<taskVars, jobVars, filVars, detVars, resVars, svVars>>

\* ExtrapolateTasksToJobs is called on a job with any of the sources.
Expand == exPc = "idle" /\ \E src \in Sources : ExtrapolateCall(DecodedJob(src))

NextExpand == Expand \/ ExtrapolateLoop \/ ExtrapolateReturn

DetectAlphabet == {"1", "-", ":", "x"}
DetectSources == StringsUpTo(DetectAlphabet, MaxDetectLen)

DetectCall(j) ==
    /\ dOp = "init"
    /\ drJob' = j
    /\ LET r == DoesJobContainTaskRange(j)
       IN  /\ drOk' = r.ok
           /\ drErr' = r.err
    /\ dOp' = "returned"
    /\ UNCHANGED <<taskVars, jobVars, filVars, expVars, resVars, svVars>>

Detect == dOp = "init" /\ \E src \in DetectSources : DetectCall(DecodedJob(src))

NextDetect == Detect

(***************************************************************************)
(* float64 arithmetic.  A natural number of any size is the sequence of    *)
(* its decimal digits, most significant first, with no leading zero (zero  *)
(* is the empty sequence).  A non-negative float64 is mant * 2^exp.        *)
(***************************************************************************)
Big2p52 == <<4, 5, 0, 3, 5, 9, 9, 6, 2, 7, 3, 7, 0, 4, 9, 6>>
Big2p53 == <<9, 0, 0, 7, 1, 9, 9, 2, 5, 4, 7, 4, 0, 9, 9, 2>>

Front(d) == SubSeq(d, 1, Len(d) - 1)
Last(d) == d[Len(d)]
BigOdd(d) == d # <<>> /\ Last(d) % 2 = 1

RECURSIVE DoubleCarry(_, _)
DoubleCarry(d, carry) ==
    IF d = <<>> THEN (IF carry = 0 THEN <<>> ELSE <<carry>>)
    ELSE LET v == 2 * Last(d) + carry
         IN  Append(DoubleCarry(Front(d), v \div 10), v % 10)
BigDouble(d) == DoubleCarry(d, 0)

RECURSIVE HalfRem(_, _)
HalfRem(d, rem) ==
    IF d = <<>> THEN <<>>
    ELSE LET v == 10 * rem + d[1]
         IN  <<v \div 2>> \o HalfRem(Tail(d), v % 2)
BigHalf(d) == StripZeros(HalfRem(d, 0))

RECURSIVE BigInc(_)
BigInc(d) ==
    IF d = <<>> THEN <<1>>
    ELSE IF Last(d) < 9 THEN Append(Front(d), Last(d) + 1)
    ELSE Append(BigInc(Front(d)), 0)

\* d * 10^k.
BigShift(d, k) == IF d = <<>> THEN <<>> ELSE d \o [i \in 1..k |-> 0]

RECURSIVE DoubleTimes(_, _)
DoubleTimes(d, n) ==
    IF n = 0 \/ d = <<>> THEN d ELSE DoubleTimes(BigDouble(d), n - 1)
RECURSIVE HalveTimes(_, _)
HalveTimes(d, n) ==
    IF n = 0 \/ d = <<>> THEN d ELSE HalveTimes(BigHalf(d), n - 1)

FloatZero == [mant |-> <<>>, exp |-> 0]

\* x doubled until it reaches lim: the result and the number of doublings.
RECURSIVE ScaleUp(_, _, _)
ScaleUp(x, s, lim) ==
    IF BigLess(x, lim) THEN ScaleUp(BigDouble(x), s + 1, lim)
    ELSE [x |-> x, s |-> s]

\* The float64 nearest to n / 10^f (ties to even), for 0 <= n / 10^f < 2^52:
\* the quotient of n * 2^s by 10^f, with s the least that gives it 53 bits.
NearestFloat(n, f) ==
    IF n = <<>> THEN FloatZero
    ELSE LET up   == ScaleUp(n, 0, BigShift(Big2p52, f))
             q    == SubSeq(up.x, 1, Len(up.x) - f)
             r    == StripZeros(SubSeq(up.x, Len(up.x) - f + 1, Len(up.x)))
             half == BigShift(<<1>>, f)
             r2   == BigDouble(r)
             roundUp == BigLess(half, r2) \/ (r2 = half /\ BigOdd(q))
         IN  [mant |-> IF roundUp THEN BigInc(q) ELSE q, exp |-> -up.s]

\* q halved until it has at most 53 bits, with the last bit dropped (guard)
\* and whether a bit dropped before it was 1 (sticky).
RECURSIVE ScaleDown(_, _, _, _)
ScaleDown(q, t, guard, sticky) ==
    IF BigLess(q, Big2p53) THEN [q |-> q, t |-> t, guard |-> guard, sticky |-> sticky]
    ELSE ScaleDown(BigHalf(q), t + 1, BigOdd(q), sticky \/ guard)

\* The float64 product x * 10^k (10^6, 10^9 and 10^12 are float64 values):
\* the exact product rounded to 53 bits, ties to even.
FloatTimesPow10(x, k) ==
    LET dn == ScaleDown(BigShift(x.mant, k), 0, FALSE, FALSE)
        roundUp == dn.guard /\ (dn.sticky \/ BigOdd(dn.q))
    IN  IF x.mant = <<>> THEN FloatZero
        ELSE [mant |-> IF roundUp THEN BigInc(dn.q) ELSE dn.q, exp |-> x.exp + dn.t]

\* int64(x) for a float64 x with 0 <= x < 2^63: the fraction is dropped.
FloatToInt64(x) ==
    IF x.exp >= 0 THEN DoubleTimes(x.mant, x.exp)
    ELSE HalveTimes(x.mant, -x.exp)

\* strconv.ParseFloat(s, 64) for s made of digits, "." and characters that
\* no float is written with: digits with at most one ".", one digit at
\* least.
ParseFloat(s) ==
    LET dots == {i \in 1..Len(s) : s[i] = "."}
        frac == IF dots = {} THEN 0 ELSE Len(s) - (CHOOSE i \in dots : TRUE)
        ds   == SelectSeq(s, LAMBDA c : c # ".")
    IN  IF Cardinality(dots) > 1 \/ ds = <<>> \/ ~AllDigits(ds)
          THEN [val |-> FloatZero, err |-> "syntax"]
          ELSE [val |-> NearestFloat(StripZeros(DigitValues(ds)), frac),
                err |-> "nil"]

(***************************************************************************)
(* Resources: locateKey, the typed accessors and newStorageValue.          *)
(***************************************************************************)
ZeroResource == [Name |-> "", Type |-> "", Value |-> <<>>]
ZeroStorageValue == [Size |-> FloatZero, Scale |-> "", Bytes |-> <<>>]

\* newStorageValue.  input[len(input)-1] on an empty string is an index
\* out of range: the goroutine panics.  Bytes is a natural number as above.
newStorageValue(input) ==
    IF Len(input) = 0
      THEN [sv |-> ZeroStorageValue, err |-> "nil", panic |-> TRUE]
      ELSE LET scale == Last(input)
               remainingSize == ParseFloat(Front(input))
               size == remainingSize.val
               bytes == CASE scale = "G" -> FloatToInt64(FloatTimesPow10(size, 9))
                          [] scale = "M" -> FloatToInt64(FloatTimesPow10(size, 6))
                          [] scale = "T" -> FloatToInt64(FloatTimesPow10(size, 12))
                          [] OTHER -> <<>>
           IN  IF remainingSize.err # "nil"
                 THEN [sv |-> ZeroStorageValue, err |-> remainingSize.err, panic |-> FALSE]
                 ELSE [sv |-> [Size |-> size, Scale |-> scale, Bytes |-> bytes],
                       err |-> "nil", panic |-> FALSE]

\* A faulty variant: the last Resource of that name is returned.
RECURSIVE locateLast(_, _)
locateLast(r, key) ==
    IF r = <<>> THEN [res |-> ZeroResource, err |-> "not found"]
    ELSE IF Last(r).Name = key THEN [res |-> Last(r), err |-> "nil"]
    ELSE locateLast(Front(r), key)

\* ResourceList.locateKey: the loop from index k on.
RECURSIVE locateFrom(_, _, _)
locateFrom(r, key, k) ==
    IF k > Len(r) THEN [res |-> ZeroResource, err |-> "not found"]
    ELSE IF r[k].Name = key THEN [res |-> r[k], err |-> "nil"]
    ELSE locateFrom(r, key, k + 1)
locateKey(r, key) == locateFrom(r, key, 1)

\* ResourceList.NumberofProcessors.
NumberofProcessors(r) ==
    LET l == locateKey(r, "num_proc")
        resconv == ParseInt(l.res.Value, 32)
    IN  IF l.err # "nil" THEN [val |-> 0, err |-> l.err]
        ELSE IF resconv.err # "nil" THEN [val |-> 0, err |-> "not an integer"]
        ELSE [val |-> resconv.val, err |-> "nil"]

\* ResourceList.getStorageValueFromList.
getStorageValueFromList(r, KeyName) ==
    LET l == locateKey(r, KeyName)
    IN  IF l.err # "nil"
          THEN [sv |-> ZeroStorageValue, err |-> l.err, panic |-> FALSE]
          ELSE newStorageValue(l.res.Value)

\* The storage accessors and the key each one asks for.
StorageAccessors ==
    {"FreeMemory", "FreeSwap", "FreeVirtualMemory", "TotalMemory", "TotalSwap",
     "TotalVirtual", "MemoryUsed", "SwapUsed"}
AccessorKey(a) ==
    CASE a = "FreeMemory"        -> "mem_free"
      [] a = "FreeSwap"          -> "swap_free"
      [] a = "FreeVirtualMemory" -> "virtual_free"
      [] a = "TotalMemory"       -> "mem_total"
      [] a = "TotalSwap"         -> "swap_total"
      [] a = "TotalVirtual"      -> "virtual_total"
      [] a = "MemoryUsed"        -> "mem_used"
      [] a = "SwapUsed"          -> "swap_used"
StorageAccessor(a, r) == getStorageValueFromList(r, AccessorKey(a))

\* The values the scheduler's resources are given here: "8", "4", the empty
\* string, "2G" and "G".
ResourceValues == {<<"8">>, <<"4">>, <<>>, <<"2", "G">>, <<"G">>}
ResourceLists(names) ==
    StringsUpTo([Name : names, Type : {"hl"}, Value : ResourceValues], MaxResources)
LookupKeys == {"num_proc", "mem_free", "swap_free"}

LocateKeyCall(r, key) ==
    /\ rOp = "init"
    /\ rOp' = "locateKey"
    /\ rList' = r
    /\ rKey' = key
    /\ LET l == locateKey(r, key)
       IN  /\ rFound' = l.res
           /\ rErr' = l.err
    /\ UNCHANGED <<rNum, rSv, rPanic>>
    /\ UNCHANGED <<taskVars, jobVars, filVars, expVars, detVars, svVars>>

NumberofProcessorsCall(r) ==
    /\ rOp = "init"
    /\ rOp' = "NumberofProcessors"
    /\ rList' = r
    /\ rKey' = "num_proc"
    /\ LET n == NumberofProcessors(r)
       IN  /\ rNum' = n.val
           /\ rErr' = n.err
    /\ UNCHANGED <<rFound, rSv, rPanic>>
    /\ UNCHANGED <<taskVars, jobVars, filVars, expVars, detVars, svVars>>

StorageAccessorCall(a, r) ==
    /\ rOp = "init"
    /\ rOp' = a
    /\ rList' = r
    /\ rKey' = AccessorKey(a)
    /\ LET v == StorageAccessor(a, r)
       IN  /\ rSv' = v.sv
           /\ rErr' = v.err
           /\ rPanic' = v.panic
    /\ UNCHANGED <<rFound, rNum>>
    /\ UNCHANGED <<taskVars, jobVars, filVars, expVars, detVars, svVars>>

\* One call on any list: a lookup, NumberofProcessors, or a storage
\* accessor on a list that may hold the accessor's key.
Locate ==
    rOp = "init" /\ \E key \in LookupKeys, r \in ResourceLists({"num_proc", "mem_free"}) :
        LocateKeyCall(r, key)
CountProcessors ==
    rOp = "init" /\ \E r \in ResourceLists({"num_proc", "mem_free"}) :
        NumberofProcessorsCall(r)
ReadStorage ==
    rOp = "init" /\ \E a \in StorageAccessors :
        \E r \in ResourceLists({AccessorKey(a), "num_proc"}) : StorageAccessorCall(a, r)

NextResource == Locate \/ CountProcessors \/ ReadStorage

\* The strings newStorageValue is given here: the empty one, and up to
\* MaxNumberLen characters of a number followed by one more character.
NumberAlphabet == {"0", "1", "2", "5", "."}
Suffixes == {"G", "M", "T", "K"}
StorageInputs ==
    {<<>>} \cup {Append(n, u) : n \in StringsUpTo(NumberAlphabet, MaxNumberLen),
                                u \in Suffixes}

NewStorageValueCall(input) ==
    /\ svOp = "init"
    /\ svIn' = input
    /\ LET v == newStorageValue(input)
       IN  /\ svOut' = v.sv
           /\ svErr' = v.err
           /\ svOp' = IF v.panic THEN "panicked" ELSE "returned"
    /\ UNCHANGED <<taskVars, jobVars, filVars, expVars, detVars, resVars>>

Convert == svOp = "init" /\ \E input \in StorageInputs : NewStorageValueCall(input)

NextStorage == Convert

(***************************************************************************)
(* The initial state and the specifications.                               *)
(***************************************************************************)
InitTask ==
    /\ task = ZeroTask
    /\ decErr = "nil"
    /\ emitted = Nothing
    /\ tOp = "init"

InitJobs ==
    /\ jobList = <<>>
    /\ gjInfo = [Queues |-> <<>>, Pending |-> <<>>]
    /\ gjUpErr = "nil"
    /\ gjPred = "-"
    /\ gjErr = "nil"
    /\ jOp = "init"

InitFilterCalls ==
    /\ flIn = <<>>
    /\ flPreds = <<>>
    /\ flOut = <<>>
    /\ fOp = "init"

InitExpand ==
    /\ exJob = DecodedJob(<<>>)
    /\ exPc = "idle"
    /\ exI = 0
    /\ exEnd = 0
    /\ exStep = 0
    /\ exJl = <<>>
    /\ exErr = "nil"

InitDetect ==
    /\ drJob = DecodedJob(<<>>)
    /\ drOk = FALSE
    /\ drErr = "nil"
    /\ dOp = "init"

InitResource ==
    /\ rOp = "init"
    /\ rList = <<>>
    /\ rKey = ""
    /\ rFound = ZeroResource
    /\ rNum = 0
    /\ rSv = ZeroStorageValue
    /\ rErr = "nil"
    /\ rPanic = FALSE

InitStorage ==
    /\ svIn = <<>>
    /\ svOut = ZeroStorageValue
    /\ svErr = "nil"
    /\ svOp = "init"

Init ==
    /\ InitTask /\ InitJobs /\ InitFilterCalls /\ InitExpand /\ InitDetect
    /\ InitResource /\ InitStorage
    /\ flList = <<>>

\* The filters are pure functions of the list: the caller's list is any
\* list of at most MaxJobs jobs.
InitFilter ==
    /\ InitTask /\ InitJobs /\ InitFilterCalls /\ InitExpand /\ InitDetect
    /\ InitResource /\ InitStorage
    /\ flList \in StringsUpTo(AllJobs, MaxJobs)

SpecTask     == Init /\ [][NextTask]_vars
SpecJobs     == Init /\ [][NextJobs]_vars
SpecFilter   == InitFilter /\ [][NextFilter]_vars
SpecExpand   == Init /\ [][NextExpand]_vars
SpecDetect   == Init /\ [][NextDetect]_vars
SpecResource == Init /\ [][NextResource]_vars
SpecStorage  == Init /\ [][NextStorage]_vars

(***************************************************************************)
(* What the claims say, stated without the operators above.                *)
(***************************************************************************)
\* s is a range expression: digits, "-", digits, ":", digits, and no more.
IsRangeExpr(s) ==
    \E d, c \in 1..Len(s) :
        /\ 1 < d /\ d + 1 < c /\ c < Len(s)
        /\ s[d] = "-" /\ s[c] = ":"
        /\ \A i \in (1..Len(s)) \ {d, c} : s[i] \in Digits

\* The three numbers of a range expression.
DashAt(s) == CHOOSE d \in 1..Len(s) : s[d] = "-"
ColonAt(s) == CHOOSE c \in 1..Len(s) : s[c] = ":"
NumberAt(s, from, to) == DigitsToInt(DigitValues(SubSeq(s, from, to)))
RangeStart(s) == NumberAt(s, 1, DashAt(s) - 1)
RangeEnd(s) == NumberAt(s, DashAt(s) + 1, ColonAt(s) - 1)
RangeStep(s) == NumberAt(s, ColonAt(s) + 1, Len(s))

\* One copy of job per task id start, start+step, ... up to end.
ExpandedJobs(job, start, end, step) ==
    [k \in 1..((end - start) \div step + 1) |->
        [job EXCEPT !.Tasks.TaskID = start + (k - 1) * step]]

\* s contains a range expression.
ContainsRangeExpr(s) ==
    \E i, j \in 1..Len(s) : i <= j /\ IsRangeExpr(SubSeq(s, i, j))

\* out is made of the elements of in that satisfy every predicate of preds,
\* in the order they have in in.
KeptIndices(in, preds) ==
    {i \in 1..Len(in) : \A n \in 1..Len(preds) : Holds(preds[n], in[i])}
IsOrderedSelection(out, in, preds) ==
    LET kept == KeptIndices(in, preds)
    IN  /\ Len(out) = Cardinality(kept)
        /\ \A i \in kept : out[Cardinality({j \in kept : j <= i})] = in[i]

\* jobs is the queues' job lists one after the other, then the pending one.
QueueOffset(ji, q) ==
    LET lens == [n \in 1..Len(ji.Queues) |-> Len(ji.Queues[n])]
        sum[n \in 0..Len(ji.Queues)] == IF n = 0 THEN 0 ELSE sum[n - 1] + lens[n]
    IN  sum[q - 1]
IsAssemblyOf(jobs, ji) ==
    LET running == QueueOffset(ji, Len(ji.Queues) + 1)
    IN  /\ Len(jobs) = running + Len(ji.Pending)
        /\ \A q \in 1..Len(ji.Queues) : \A k \in 1..Len(ji.Queues[q]) :
              jobs[QueueOffset(ji, q) + k] = ji.Queues[q][k]
        /\ \A k \in 1..Len(ji.Pending) : jobs[running + k] = ji.Pending[k]

\* s is a decimal integer in canonical form: an optional "-", then digits
\* that do not start with "0".
IsCanonicalInt(s) ==
    LET body == IF s # <<>> /\ s[1] = "-" THEN Tail(s) ELSE s
    IN  body # <<>> /\ AllDigits(body) /\ body[1] # "0"

\* The canonical form of a decimal integer s, as a text to emit: the "+" and
\* the leading zeros dropped, and nothing at all when no digit is left.
RECURSIVE DropZeroChars(_)
DropZeroChars(s) == IF s # <<>> /\ s[1] = "0" THEN DropZeroChars(Tail(s)) ELSE s
CanonicalEmit(s) ==
    LET signed == s # <<>> /\ s[1] \in {"+", "-"}
        sig == DropZeroChars(IF signed THEN Tail(s) ELSE s)
    IN  IF sig = <<>> THEN Nothing
        ELSE Text((IF s[1] = "-" THEN <<"-">> ELSE <<>>) \o sig)

\* s is a decimal number: digits, or digits "." digits.
IsDecimalNumber(s) ==
    \/ s # <<>> /\ AllDigits(s)
    \/ \E d \in 2..(Len(s) - 1) :
          s[d] = "." /\ \A i \in (1..Len(s)) \ {d} : s[i] \in Digits

\* The decimal number s times 10^k, the fraction dropped.
ExactBytes(s, k) ==
    LET dots == {i \in 1..Len(s) : s[i] = "."}
        frac == IF dots = {} THEN 0 ELSE Len(s) - (CHOOSE i \in dots : TRUE)
        ds   == DigitValues(SelectSeq(s, LAMBDA c : c # ".")) \o [i \in 1..k |-> 0]
    IN  StripZeros(SubSeq(ds, 1, Len(ds) - frac))

FirstIndex(r, key) ==
    CHOOSE i \in 1..Len(r) : r[i].Name = key /\ \A j \in 1..(i - 1) : r[j].Name # key
HasKey(r, key) == \E i \in 1..Len(r) : r[i].Name = key

(***************************************************************************)
(* The claims.                                                             *)
(***************************************************************************)
ExSource == exJob.Tasks.Source

\* C1: for a Job whose Tasks.Source is a range expression start-end:step
\* with start <= end and step >= 1, steps of several digits included,
\* ExtrapolateTasksToJobs returns no error and one copy of the Job per
\* i = start, start+step, ... <= end, in that order, with TaskID = i.
C1_ExpansionFollowsTheRange ==
    (exPc = "done" /\ IsRangeExpr(ExSource)
        /\ RangeStart(ExSource) <= RangeEnd(ExSource) /\ RangeStep(ExSource) >= 1)
    => /\ exErr = "nil"
       /\ exJl = ExpandedJobs(exJob, RangeStart(ExSource), RangeEnd(ExSource),
                              RangeStep(ExSource))

\* C2: on a range expression whose step is zero, ExtrapolateTasksToJobs
\* returns an error and no jobs; it never enters the expansion loop.
C2_ZeroStepIsRejected ==
    (exPc # "idle" /\ IsRangeExpr(ExSource) /\ RangeStep(ExSource) = 0)
    => exPc = "done" /\ exErr # "nil" /\ exJl = <<>>

\* C3, as claimed: decoding a non-range decimal string s and encoding the
\* Task emits exactly s, leading zeros and signs included, except that "0"
\* is emitted as nothing.
C3_RoundTripIsExact ==
    (tOp = "encoded" /\ ~Contains(task.Source, ":"))
    => emitted = IF task.Source = <<"0">> THEN Nothing ELSE Text(task.Source)

\* C3, as amended: decoding a non-range decimal string s and encoding the
\* Task emits the canonical decimal form of s (no "+", no leading zeros),
\* and nothing when the value is zero; so a canonical s is emitted as it is.
C3_RoundTripIsCanonical ==
    (tOp = "encoded" /\ ~Contains(task.Source, ":"))
    => /\ emitted = CanonicalEmit(task.Source)
       /\ IsCanonicalInt(task.Source) => emitted = Text(task.Source)
       /\ task.Source = <<"0">> => emitted = Nothing
C3_Witness ==
    /\ tOp = "encoded"
    /\ task.Source = <<"-", "1", "7">>
    /\ emitted = Text(<<"-", "1", "7">>)

\* C4: no storage accessor panics, whatever the list and the values in it.
C4_AccessorsNeverPanic ==
    rOp \in StorageAccessors => ~rPanic

\* C5: on a range expression with start > end, ExtrapolateTasksToJobs
\* returns no jobs and an error.
C5_StartAfterEndFails ==
    (exPc = "done" /\ IsRangeExpr(ExSource)
        /\ RangeStart(ExSource) > RangeEnd(ExSource))
    => exErr # "nil" /\ exJl = <<>>

\* C6: jl.Filter(p) and FilterJobs(jl, p) return the Jobs of jl for which p
\* holds, in the order of jl, and leave jl as it was; a chain of filters
\* returns the Jobs that satisfy every predicate of the chain.
C6_FilterSelectsInOrder ==
    fOp \in {"Filter", "FilterJobs", "Chain"}
    => /\ flList = flIn
       /\ IsOrderedSelection(flOut, flIn, flPreds)
C6_Witness ==
    /\ fOp = "Chain"
    /\ flPreds = <<"running", "alice">>
    /\ Len(flIn) = 4
    /\ flIn[1].State = "qw" /\ flIn[2].JobOwner = "bob"
    /\ Len(flOut) = 2

\* C7: GetJobs returns, when the document was retrieved, the queues' job
\* lists in queue order and then the pending list, and no error; when the
\* retrieval failed, that error and an empty list.
C7_GetJobsAllOrNothing ==
    jOp = "GetJobs"
    => IF gjUpErr = "nil"
         THEN gjErr = "nil" /\ IsAssemblyOf(jobList, gjInfo)
         ELSE gjErr = gjUpErr /\ jobList = <<>>
C7_Witness ==
    /\ jOp = "GetJobs"
    /\ gjUpErr = "nil"
    /\ Len(gjInfo.Queues) = 2
    /\ Len(gjInfo.Queues[1]) = 2 /\ Len(gjInfo.Queues[2]) = 1
    /\ gjInfo.Queues[1][1] # gjInfo.Queues[1][2]
    /\ Len(gjInfo.Pending) = 2
    /\ Len(jobList) = 5

\* C8: locateKey returns the first Resource whose Name is the key and
\* fails exactly when there is none; NumberofProcessors fails on a list
\* with no "num_proc" and returns 8 when the first "num_proc" has value "8".
C8_LookupReturnsFirstMatch ==
    /\ rOp = "locateKey"
       => IF HasKey(rList, rKey)
            THEN rErr = "nil" /\ rFound = rList[FirstIndex(rList, rKey)]
            ELSE rErr = "not found"
    /\ rOp = "NumberofProcessors"
       => /\ ~HasKey(rList, "num_proc") => rErr # "nil"
          /\ (HasKey(rList, "num_proc")
                /\ rList[FirstIndex(rList, "num_proc")].Value = <<"8">>)
             => rNum = 8 /\ rErr = "nil"
    /\ (rOp \in StorageAccessors /\ ~HasKey(rList, rKey)) => rErr = "not found"
C8_Witness ==
    /\ rOp = "NumberofProcessors"
    /\ Len(rList) = 2
    /\ rList[1].Name = "num_proc" /\ rList[1].Value = <<"8">>
    /\ rList[2].Name = "num_proc" /\ rList[2].Value = <<"4">>
    /\ rNum = 8 /\ rErr = "nil"

\* C9: for a decimal number followed by one suffix character,
\* newStorageValue returns no error, the suffix as scale, and as bytes the
\* number times 10^9 (G), 10^6 (M) or 10^12 (T) with the fraction dropped,
\* or 0 for another suffix.
C9_BytesAreTheDecimalProduct ==
    (svOp # "init" /\ svIn # <<>> /\ IsDecimalNumber(Front(svIn)))
    => /\ svOp = "returned" /\ svErr = "nil"
       /\ svOut.Scale = Last(svIn)
       /\ svOut.Bytes = CASE Last(svIn) = "G" -> ExactBytes(Front(svIn), 9)
                          [] Last(svIn) = "M" -> ExactBytes(Front(svIn), 6)
                          [] Last(svIn) = "T" -> ExactBytes(Front(svIn), 12)
                          [] OTHER -> <<>>

\* C10: DoesJobContainTaskRange returns true exactly when Tasks.Source
\* contains digits, "-", digits, ":", digits somewhere, and never an error.
C10_DetectsContainedRange ==
    dOp = "returned"
    => /\ drErr = "nil"
       /\ drOk <=> ContainsRangeExpr(drJob.Tasks.Source)
C10_Witness ==
    /\ dOp = "returned"
    /\ drJob.Tasks.Source = <<"x", "1", "-", "1", ":", "1">>
    /\ drOk
====
